---- MODULE Spec2Model ----
(***************************************************************************)
(* Model of pimotorcontrol.pimc: the journaled open/close state machine,   *)
(* its pulse-wait loop, the thread pool that writes the journal in the     *)
(* background, and the callers that invoke open(), close() and resume()    *)
(* on one shared controller (flaskapp.py dispatches every request to the   *)
(* same backend object).                                                   *)
(*                                                                         *)
(* Strings are TLA+ strings, handled as Python handles them: split() and   *)
(* strip() cut on whitespace, int() parses an optional sign and digits,    *)
(* and writing a file replaces bytes from offset 0.  Python's None is the  *)
(* empty tuple and a value v that is present is <<v>>.                     *)
(***************************************************************************)
EXTENDS Integers, Sequences, FiniteSets, TLC

\* ------------------------------------------------------------------ bounds
\* Largest pulse target a caller configures (the program's default is 11).
MaxPulses == 2
\* Number of journal futures that can be outstanding at once.
MaxFutures == 2
\* Seconds of wall-clock time that pass in one Tick of the model.
TickSeconds == 30
\* Number of invocations that may start while another one is still running.
MaxOverlaps == 1
\* Number of invocations in a run that lets every invocation overlap.
MaxCalls == 3
\* The callers that may invoke the controller concurrently.
Callers == {1, 2}

\* ------------------------------------------------------- program constants
\* self.maxtime = 30
DefaultMaxTime == 30
\* ThreadPoolExecutor(max_workers=8)
MaxWorkers == 8
\* GPIO levels: LOW enables the relay (power), HIGH disables it (ground).
LOW == 0
HIGH == 1

None == <<>>
Some(v) == <<v>>
Get(o) == o[1]

\* ------------------------------------------------------------ str methods
IsSpace(c) == c \in {" ", "\n", "\t"}

Char(s, i) == SubSeq(s, i, i)

RECURSIVE LStrip(_)
LStrip(s) ==
    IF Len(s) > 0 /\ IsSpace(Char(s, 1)) THEN LStrip(SubSeq(s, 2, Len(s))) ELSE s

RECURSIVE RStrip(_)
RStrip(s) ==
    IF Len(s) > 0 /\ IsSpace(Char(s, Len(s)))
    THEN RStrip(SubSeq(s, 1, Len(s) - 1)) ELSE s

\* str.strip()
Strip(s) == RStrip(LStrip(s))

\* Length of the first whitespace-free run of s.
RECURSIVE WordLen(_)
WordLen(s) ==
    IF Len(s) = 0 \/ IsSpace(Char(s, 1)) THEN 0
    ELSE 1 + WordLen(SubSeq(s, 2, Len(s)))

\* str.split(): the whitespace-separated tokens of s.
RECURSIVE Split(_)
Split(s) ==
    LET t == LStrip(s)
        n == WordLen(t)
    IN IF Len(t) = 0 THEN <<>>
       ELSE <<SubSeq(t, 1, n)>> \o Split(SubSeq(t, n + 1, Len(t)))

Digits == {"0", "1", "2", "3", "4", "5", "6", "7", "8", "9"}

DigitVal(c) ==
    CASE c = "0" -> 0 [] c = "1" -> 1 [] c = "2" -> 2 [] c = "3" -> 3
      [] c = "4" -> 4 [] c = "5" -> 5 [] c = "6" -> 6 [] c = "7" -> 7
      [] c = "8" -> 8 [] c = "9" -> 9

AllDigits(s) == Len(s) > 0 /\ \A i \in 1..Len(s) : Char(s, i) \in Digits

RECURSIVE DigitsVal(_)
DigitsVal(s) ==
    IF Len(s) = 0 THEN 0
    ELSE 10 * DigitsVal(SubSeq(s, 1, Len(s) - 1)) + DigitVal(Char(s, Len(s)))

HasSign(s) == Len(s) > 0 /\ Char(s, 1) \in {"+", "-"}

\* int(s) succeeds: an optional sign, then decimal digits.  (int() also takes
\* underscores between digits and non-ASCII digits; no journal file of the
\* model holds such a token.)
IsInt(s) == AllDigits(IF HasSign(s) THEN SubSeq(s, 2, Len(s)) ELSE s)

\* int(s)
ParseInt(s) ==
    IF HasSign(s)
    THEN (IF Char(s, 1) = "-" THEN -1 ELSE 1) * DigitsVal(SubSeq(s, 2, Len(s)))
    ELSE DigitsVal(s)

\* f"{status} {n}"
FormatStatus(prefix, n) == prefix \o " " \o ToString(n)

\* The bytes of a file that held old after new is written at offset 0.
Overwrite(old, new) ==
    IF Len(old) > Len(new) THEN new \o SubSeq(old, Len(new) + 1, Len(old)) ELSE new

\* ------------------------------------------------------------------- state
VARIABLES
    status,           \* self.status: None or <<string>>
    journal,          \* the journal file: None (missing) or <<content>>
    journal_futures,  \* self.journal_futures: the futures still tracked
    fut,              \* each future of the executor: its state and write buffer
    motor_busy,       \* self.motor_busy
    ch1, ch2,         \* level of the motor leads CH1 (forward) and CH2 (reverse)
    faking_it,        \* self.faking_it
    open_pulses,      \* self.open_pulses
    close_pulses,     \* self.close_pulses
    maxtime,          \* self.maxtime
    maxtime_arg,      \* the maxtime argument the constructor was called with
    returned,         \* the invocation that ended last: <<method, outcome>>
    overlaps,         \* invocations that may still start while another one runs
    calls,            \* invocations that may still start at all (None: no limit)
    pc,               \* where each caller is
    op,               \* "open" or "close": the operation a caller is inside
    pulses,           \* open/close: pulses
    resuming,         \* open/close: resuming
    phase,            \* which stop_and_housekeeping call of the operation runs
    snap,             \* the futures as_completed() was handed
    pulses_seen,      \* wait_pulses: pulses_seen
    last_state,       \* wait_pulses: last_state
    elapsed,          \* wait_pulses: time.time() - start_time
    result,           \* open/close: result
    wbuf              \* write_journal in the caller: the text handed to f.write

shared == <<status, journal, journal_futures, fut, motor_busy, ch1, ch2>>
config == <<faking_it, open_pulses, close_pulses, maxtime, maxtime_arg>>
locals == <<pc, op, pulses, resuming, phase, snap, pulses_seen, last_state,
            elapsed, result, wbuf>>
vars == <<shared, config, returned, overlaps, calls, locals>>

Futures == 1..MaxFutures

\* Journal files a controller may be constructed on.
JournalFiles ==
    {None} \cup {Some(s) : s \in {"", "closed\n", "open", "opening", "opening 0",
                                  "opening 1", "opening x", "closing 1", "closing",
                                  "failed opening", "failed closing"}}

\* Values of the maxtime argument (--max-time): the default and twice that.
MaxTimeArgs == {DefaultMaxTime, 2 * DefaultMaxTime}

IdleFuture == [st |-> "done", buf |-> ""]

\* A variant of load_journal that takes a missing or empty file for 'closed'.
load_journal_default(file) ==
    IF file = None THEN Some("closed")
    ELSE IF Strip(Get(file)) = "" THEN Some("closed")
    ELSE Some(Strip(Get(file)))

\* load_journal
load_journal(file) ==
    IF file = None THEN None
    ELSE IF Strip(Get(file)) = "" THEN None
    ELSE Some(Strip(Get(file)))

\* __init__ on the journal file the controller finds.  Both pulse counts are
\* configured as MaxPulses, and the relay inputs rest HIGH (motor stopped)
\* until the controller drives them.  self.maxtime is assigned the literal 30,
\* whatever the maxtime argument is.
Construct ==
    /\ status = load_journal(journal)
    /\ journal_futures = {}
    /\ fut = [f \in Futures |-> IdleFuture]
    /\ motor_busy = FALSE
    /\ ch1 = HIGH /\ ch2 = HIGH
    /\ open_pulses = MaxPulses
    /\ close_pulses = MaxPulses
    /\ maxtime = DefaultMaxTime
    /\ returned = <<"-", "-">>
    /\ pc = [t \in Callers |-> "idle"]
    /\ op = [t \in Callers |-> "-"]
    /\ pulses = [t \in Callers |-> 0]
    /\ resuming = [t \in Callers |-> FALSE]
    /\ phase = [t \in Callers |-> "-"]
    /\ snap = [t \in Callers |-> {}]
    /\ pulses_seen = [t \in Callers |-> 0]
    /\ last_state = [t \in Callers |-> None]
    /\ elapsed = [t \in Callers |-> 0]
    /\ result = [t \in Callers |-> FALSE]
    /\ wbuf = [t \in Callers |-> ""]

\* ------------------------------------------------------------ the executor
Done(f) == fut[f].st = "done"

\* Futures that no dict, no as_completed() call and no worker still holds.
FreeFutures(tracked) ==
    {f \in Futures : Done(f) /\ f \notin tracked /\ \A t \in Callers : f \notin snap[t]}

Lowest(S) == CHOOSE f \in S : \A g \in S : f <= g

Running == {f \in Futures : fut[f].st = "written"}

\* update_status(new_status): self.status is set, write_journal is submitted
\* and the future is added to what is left of self.journal_futures.
update_status_future(new_status, tracked) ==
    /\ FreeFutures(tracked) # {}
    /\ status' = Some(new_status)
    /\ fut' = [fut EXCEPT ![Lowest(FreeFutures(tracked))] = [st |-> "queued", buf |-> ""]]
    /\ journal_futures' = tracked \cup {Lowest(FreeFutures(tracked))}

\* A pool worker runs write_journal up to f.write: open(journal_filename, 'w')
\* truncates the file and the status of this moment goes to the file's buffer.
WorkerWrite(f) ==
    /\ fut[f].st = "queued"
    /\ Cardinality(Running) < MaxWorkers
    /\ journal' = Some("")
    /\ fut' = [fut EXCEPT ![f] = [st |-> "written", buf |-> Get(status)]]
    /\ UNCHANGED <<status, journal_futures, motor_busy, ch1, ch2, config, returned, overlaps, calls, locals>>

\* Leaving the with block flushes the buffer at offset 0; os.sync(); done.
WorkerClose(f) ==
    /\ fut[f].st = "written"
    /\ journal' = Some(Overwrite(Get(journal), fut[f].buf))
    /\ fut' = [fut EXCEPT ![f] = IdleFuture]
    /\ UNCHANGED <<status, journal_futures, motor_busy, ch1, ch2, config, returned, overlaps, calls, locals>>

\* -------------------------------------------------------------- the callers
\* The method a caller inside open/close invoked: resume() is what calls them
\* with resuming=True.
method(o, r) == IF r THEN "resume" ELSE o

\* A caller's invocation of m ends with outcome r; its frame is dropped.
Return(t, m, r) ==
    /\ returned' = <<m, r>>
    /\ pc' = [pc EXCEPT ![t] = "idle"]
    /\ op' = [op EXCEPT ![t] = "-"]
    /\ pulses' = [pulses EXCEPT ![t] = 0]
    /\ resuming' = [resuming EXCEPT ![t] = FALSE]
    /\ phase' = [phase EXCEPT ![t] = "-"]
    /\ snap' = [snap EXCEPT ![t] = {}]
    /\ pulses_seen' = [pulses_seen EXCEPT ![t] = 0]
    /\ last_state' = [last_state EXCEPT ![t] = None]
    /\ elapsed' = [elapsed EXCEPT ![t] = 0]
    /\ result' = [result EXCEPT ![t] = FALSE]
    /\ wbuf' = [wbuf EXCEPT ![t] = ""]

\* A caller passed the checks of open()/close() and goes on to the motor.
Enter(t, o, p, r) ==
    /\ pc' = [pc EXCEPT ![t] = "forward"]
    /\ op' = [op EXCEPT ![t] = o]
    /\ pulses' = [pulses EXCEPT ![t] = p]
    /\ resuming' = [resuming EXCEPT ![t] = r]
    /\ UNCHANGED <<returned, phase, snap, pulses_seen, last_state, elapsed, result, wbuf>>

\* A caller invokes a method of the controller, alone or beside the other one.
Invoke(t) ==
    /\ pc[t] = "idle"
    /\ IF calls = None
       THEN calls' = calls
       ELSE Get(calls) > 0 /\ calls' = Some(Get(calls) - 1)
    /\ IF \A u \in Callers : pc[u] = "idle"
       THEN overlaps' = overlaps
       ELSE overlaps > 0 /\ overlaps' = overlaps - 1

\* A variant of default_pulses written "pulses or full": a count of 0 is lost.
default_pulses_or(p, full) == IF p = None \/ Get(p) = 0 THEN full ELSE Get(p)

\* pulses = self.open_pulses if pulses is None else pulses
default_pulses(p, full) == IF p = None THEN full ELSE Get(p)

\* A variant of open_allowed that lets a failed open be retried.
open_allowed_retry(s) == s \in {Some("closed"), Some("failed opening")}

\* open: self.status != "closed" rejects
open_allowed(s) == s = Some("closed")

\* close: self.status != "open" rejects
close_allowed(s) == s = Some("open")

\* open() as the callers invoke it: no arguments.
Open(t) ==
    /\ Invoke(t)
    /\ IF open_allowed(status)
       THEN Enter(t, "open", default_pulses(None, open_pulses), FALSE)
       ELSE Return(t, "open", "False")
    /\ UNCHANGED <<shared, config>>

\* close() as the callers invoke it: no arguments.
Close(t) ==
    /\ Invoke(t)
    /\ IF close_allowed(status)
       THEN Enter(t, "close", default_pulses(None, close_pulses), FALSE)
       ELSE Return(t, "close", "False")
    /\ UNCHANGED <<shared, config>>

\* resume: the status carries a token after 'opening'/'closing'.
has_count(status_split) ==
    status_split[1] \in {"opening", "closing"} /\ Len(status_split) > 1

\* A variant of remaining_pulses that swallows the ValueError and goes on
\* without a count.
remaining_pulses_lenient(status_split) ==
    IF has_count(status_split) /\ IsInt(status_split[2])
    THEN [error |-> FALSE, value |-> Some(ParseInt(status_split[2]))]
    ELSE [error |-> FALSE, value |-> None]

\* resume: remaining_pulses. error stands for the ValueError of int(), after
\* which resume returns False; value is None when the status carries no count.
remaining_pulses(status_split) ==
    IF has_count(status_split)
    THEN (IF IsInt(status_split[2])
          THEN [error |-> FALSE, value |-> Some(ParseInt(status_split[2]))]
          ELSE [error |-> TRUE, value |-> None])
    ELSE [error |-> FALSE, value |-> None]

\* A variant of resumed_operation that looks at the last token of the status.
resumed_operation_last(status_split) ==
    IF status_split[Len(status_split)] = "opening" THEN "open"
    ELSE IF status_split[Len(status_split)] = "closing" THEN "close"
    ELSE "none"

\* resume: the operation the status asks to resume, by its first token.
resumed_operation(status_split) ==
    IF status_split[1] = "opening" THEN "open"
    ELSE IF status_split[1] = "closing" THEN "close"
    ELSE "none"

\* The configured pulse count of an operation.
full_pulses(o) == IF o = "open" THEN open_pulses ELSE close_pulses

\* resume(): None.split() raises; a bad count returns False; 'opening' and
\* 'closing' call open/close with resuming=True; anything else returns False.
Resume(t) ==
    /\ Invoke(t)
    /\ IF status = None THEN Return(t, "resume", "AttributeError")
       ELSE LET status_split == Split(Get(status))
                remaining == remaining_pulses(status_split)
                o == resumed_operation(status_split)
            IN IF remaining.error \/ o = "none"
               THEN Return(t, "resume", "False")
               ELSE Enter(t, o, default_pulses(remaining.value, full_pulses(o)), TRUE)
    /\ UNCHANGED <<shared, config>>

\* forward()/reverse(): a busy motor makes them return False, and open()/close()
\* then runs self.logger("Aborted ..."): the Logger object is not callable.
ForwardTest(t) ==
    /\ pc[t] = "forward"
    /\ IF motor_busy
       THEN Return(t, method(op[t], resuming[t]), "TypeError")
       ELSE /\ pc' = [pc EXCEPT ![t] = "forward_set"]
            /\ UNCHANGED <<returned, op, pulses, resuming, phase, snap, pulses_seen,
                           last_state, elapsed, result, wbuf>>
    /\ UNCHANGED <<shared, config, overlaps, calls>>

\* forward()/reverse(): self.motor_busy = True, then stop_and_housekeeping().
ForwardSet(t) ==
    /\ pc[t] = "forward_set"
    /\ motor_busy' = TRUE
    /\ pc' = [pc EXCEPT ![t] = "stop"]
    /\ phase' = [phase EXCEPT ![t] = "acquire"]
    /\ UNCHANGED <<status, journal, journal_futures, fut, ch1, ch2, config, returned, overlaps, calls,
                   op, pulses, resuming, snap, pulses_seen, last_state, elapsed,
                   result, wbuf>>

\* stop_and_housekeeping: GPIO.output(CH1, 1); GPIO.output(CH2, 1)
Stop(t) ==
    /\ pc[t] = "stop"
    /\ ch1' = HIGH
    /\ ch2' = HIGH
    /\ pc' = [pc EXCEPT ![t] = "settle"]
    /\ UNCHANGED <<status, journal, journal_futures, fut, motor_busy, config, returned, overlaps, calls,
                   op, pulses, resuming, phase, snap, pulses_seen, last_state,
                   elapsed, result, wbuf>>

\* stop_and_housekeeping: after the sleep, self.motor_busy = False, and
\* as_completed() is handed the futures the dict holds now.
Settle(t) ==
    /\ pc[t] = "settle"
    /\ motor_busy' = FALSE
    /\ snap' = [snap EXCEPT ![t] = journal_futures]
    /\ pc' = [pc EXCEPT ![t] = "drain"]
    /\ UNCHANGED <<status, journal, journal_futures, fut, ch1, ch2, config, returned, overlaps, calls,
                   op, pulses, resuming, phase, pulses_seen, last_state, elapsed,
                   result, wbuf>>

\* stop_and_housekeeping: every future handed to as_completed() is done, and
\* self.journal_futures = {}.
Drain(t) ==
    /\ pc[t] = "drain"
    /\ \A f \in snap[t] : Done(f)
    /\ journal_futures' = {}
    /\ snap' = [snap EXCEPT ![t] = {}]
    /\ pc' = [pc EXCEPT ![t] = IF phase[t] = "acquire" THEN "forward_out" ELSE "terminal"]
    /\ UNCHANGED <<status, journal, fut, motor_busy, ch1, ch2, config, returned, overlaps, calls, op,
                   pulses, resuming, phase, pulses_seen, last_state, elapsed, result,
                   wbuf>>

\* forward(): GPIO.output(CH1, 0); reverse(): GPIO.output(CH2, 0); neither
\* when faking it.
ForwardOut(t) ==
    /\ pc[t] = "forward_out"
    /\ ch1' = IF ~faking_it /\ op[t] = "open" THEN LOW ELSE ch1
    /\ ch2' = IF ~faking_it /\ op[t] = "close" THEN LOW ELSE ch2
    /\ pc' = [pc EXCEPT ![t] = "begin"]
    /\ UNCHANGED <<status, journal, journal_futures, fut, motor_busy, config, returned, overlaps, calls,
                   op, pulses, resuming, phase, snap, pulses_seen, last_state, elapsed,
                   result, wbuf>>

\* The status prefix of an operation.
prefix(o) == IF o = "open" THEN "opening" ELSE "closing"

\* open/close: the status written before the wait when not resuming.
start_status(o, p) == prefix(o)

\* open/close: if not resuming, update_status(...); then wait_pulses starts:
\* pulses_seen = 0, last_state = None, start_time = time.time().
Begin(t) ==
    /\ pc[t] = "begin"
    /\ IF resuming[t]
       THEN UNCHANGED <<status, fut, journal_futures>>
       ELSE update_status_future(start_status(op[t], pulses[t]), journal_futures)
    /\ pc' = [pc EXCEPT ![t] = "wait"]
    /\ pulses_seen' = [pulses_seen EXCEPT ![t] = 0]
    /\ last_state' = [last_state EXCEPT ![t] = None]
    /\ elapsed' = [elapsed EXCEPT ![t] = 0]
    /\ UNCHANGED <<journal, motor_busy, ch1, ch2, config, returned, overlaps, calls, op, pulses,
                   resuming, phase, snap, result, wbuf>>

\* cleanup_completed_journal_futures: the futures that are done leave the dict.
\* (as_completed(..., timeout=0) raises when a future is not done yet; the
\* except clause is taken to catch it, as it does from Python 3.11 on.)
cleanup_completed(tracked) == {f \in tracked : ~Done(f)}

\* wait_pulses: while time.time() - start_time < self.maxtime and pulses_seen < pulses
loop_continues(el, limit, seen, target) == el < limit /\ seen < target

\* wait_pulses: state > last_state
is_pulse(last, state) == state > last

\* A variant of progress_status that writes the pulses seen, not those left.
progress_status_seen(o, target, seen) == FormatStatus(prefix(o), seen)

\* A variant of progress_status that subtracts the pulse once more.
progress_status_late(o, target, seen) == FormatStatus(prefix(o), target - seen - 1)

\* wait_pulses: f"{status} {pulses-pulses_seen}"
progress_status(o, target, seen) == FormatStatus(prefix(o), target - seen)

\* One pass of the loop of wait_pulses (GPIO.input(PULSE) is 0 or 1) or of
\* fake_wait_pulses (last_state = 0, state = 1 on every pass).
WaitIter(t) ==
    /\ pc[t] = "wait"
    /\ loop_continues(elapsed[t], maxtime, pulses_seen[t], pulses[t])
    /\ \E state \in (IF faking_it THEN {1} ELSE {0, 1}) :
         LET last == IF faking_it THEN Some(0) ELSE last_state[t]
             tracked == cleanup_completed(journal_futures)
         IN IF last = None
            THEN /\ last_state' = [last_state EXCEPT ![t] = Some(state)]
                 /\ journal_futures' = tracked
                 /\ UNCHANGED <<status, fut, pulses_seen>>
            ELSE /\ last_state' = [last_state EXCEPT ![t] = Some(state)]
                 /\ IF is_pulse(Get(last), state)
                    THEN /\ pulses_seen' = [pulses_seen EXCEPT ![t] = @ + 1]
                         /\ update_status_future(
                                progress_status(op[t], pulses[t], pulses_seen[t] + 1),
                                tracked)
                    ELSE /\ journal_futures' = tracked
                         /\ UNCHANGED <<status, fut, pulses_seen>>
    /\ UNCHANGED <<journal, motor_busy, ch1, ch2, config, returned, overlaps, calls, pc, op, pulses,
                   resuming, phase, snap, elapsed, result, wbuf>>

\* Wall-clock time passes for every caller inside the loop (a caller past its
\* limit is not timed further).
Tick ==
    /\ \E t \in Callers : pc[t] = "wait" /\ elapsed[t] < maxtime
    /\ elapsed' = [t \in Callers |->
                     IF pc[t] = "wait" /\ elapsed[t] < maxtime
                     THEN elapsed[t] + TickSeconds ELSE elapsed[t]]
    /\ UNCHANGED <<shared, config, returned, overlaps, calls, pc, op, pulses, resuming, phase, snap,
                   pulses_seen, last_state, result, wbuf>>

\* A variant of wait_result that reports success once any pulse was seen.
wait_result_any(seen, target) == seen > 0 \/ seen >= target

\* wait_pulses: True if pulses_seen >= pulses, else False
wait_result(seen, target) == seen >= target

\* wait_pulses returns; open/close goes on to stop_and_housekeeping().
WaitExit(t) ==
    /\ pc[t] = "wait"
    /\ ~loop_continues(elapsed[t], maxtime, pulses_seen[t], pulses[t])
    /\ result' = [result EXCEPT ![t] = wait_result(pulses_seen[t], pulses[t])]
    /\ phase' = [phase EXCEPT ![t] = "finish"]
    /\ pc' = [pc EXCEPT ![t] = "stop"]
    /\ last_state' = [last_state EXCEPT ![t] = None]
    /\ elapsed' = [elapsed EXCEPT ![t] = 0]
    /\ UNCHANGED <<shared, config, returned, overlaps, calls, op, pulses, resuming, snap,
                   pulses_seen, wbuf>>

\* open/close: the status of the outcome.
terminal_status(o, res) ==
    IF o = "open" THEN (IF res THEN "open" ELSE "failed opening")
    ELSE (IF res THEN "closed" ELSE "failed closing")

\* update_status(..., use_future=False): self.status = new_status, and
\* write_journal up to f.write: the file is truncated, the status is buffered.
Terminal(t) ==
    /\ pc[t] = "terminal"
    /\ status' = Some(terminal_status(op[t], result[t]))
    /\ journal' = Some("")
    /\ wbuf' = [wbuf EXCEPT ![t] = terminal_status(op[t], result[t])]
    /\ pc' = [pc EXCEPT ![t] = "sync_close"]
    /\ UNCHANGED <<journal_futures, fut, motor_busy, ch1, ch2, config, returned, overlaps, calls, op,
                   pulses, resuming, phase, snap, pulses_seen, last_state, elapsed,
                   result>>

\* What a caller's invocation returns once open()/close() fell off its end:
\* resume() returns True, open() and close() return None.
return_value(r) == IF r THEN "True" ELSE "None"

\* write_journal in the caller: the buffer is flushed at offset 0; os.sync();
\* open/close returns.
SyncClose(t) ==
    /\ pc[t] = "sync_close"
    /\ journal' = Some(Overwrite(Get(journal), wbuf[t]))
    /\ Return(t, method(op[t], resuming[t]), return_value(resuming[t]))
    /\ UNCHANGED <<status, journal_futures, fut, motor_busy, ch1, ch2, config, overlaps, calls>>

Next ==
    \/ \E t \in Callers : Open(t)
    \/ \E t \in Callers : Close(t)
    \/ \E t \in Callers : Resume(t)
    \/ \E t \in Callers : ForwardTest(t)
    \/ \E t \in Callers : ForwardSet(t)
    \/ \E t \in Callers : Stop(t)
    \/ \E t \in Callers : Settle(t)
    \/ \E t \in Callers : Drain(t)
    \/ \E t \in Callers : ForwardOut(t)
    \/ \E t \in Callers : Begin(t)
    \/ \E t \in Callers : WaitIter(t)
    \/ \E t \in Callers : WaitExit(t)
    \/ \E t \in Callers : Terminal(t)
    \/ \E t \in Callers : SyncClose(t)
    \/ \E f \in Futures : WorkerWrite(f)
    \/ \E f \in Futures : WorkerClose(f)
    \/ Tick

\* One invocation at a time, as the command line and a serial front-end make it.
Init ==
    /\ journal \in JournalFiles
    /\ faking_it \in BOOLEAN
    /\ maxtime_arg \in MaxTimeArgs
    /\ overlaps = 0
    /\ calls = None
    /\ Construct

Spec == Init /\ [][Next]_vars

\* The steps of a caller that do not depend on the pulse input: every step of
\* open()/close() but the passes of the wait loop.
Proceed(t) ==
    \/ ForwardTest(t) \/ ForwardSet(t) \/ Stop(t) \/ Settle(t) \/ Drain(t)
    \/ ForwardOut(t) \/ Begin(t) \/ WaitExit(t) \/ Terminal(t) \/ SyncClose(t)

\* Time advances, the pool runs the writes it was given, and a thread inside
\* open()/close() keeps running. Nothing is assumed about the pulse input.
Fairness ==
    /\ WF_vars(Tick)
    /\ \A f \in Futures : WF_vars(WorkerWrite(f)) /\ WF_vars(WorkerClose(f))
    /\ \A t \in Callers : WF_vars(Proceed(t))

SpecLive == Init /\ [][Next]_vars /\ Fairness

\* Journal files of the runs with overlapping invocations.
OverlapJournalFiles == {Some("closed\n"), Some("opening 1")}

\* The threaded front-end of flaskapp.py: a request may arrive while another
\* one is still inside the controller.
InitOverlap ==
    /\ journal \in OverlapJournalFiles
    /\ faking_it = FALSE
    /\ maxtime_arg = DefaultMaxTime
    /\ overlaps = MaxOverlaps
    /\ calls = None
    /\ Construct

SpecOverlap == InitOverlap /\ [][Next]_vars

SpecOverlapLive == InitOverlap /\ [][Next]_vars /\ Fairness

\* A controller that finds an interrupted open in its journal and then gets
\* MaxCalls requests, each of which may arrive while others are inside.
InitRace ==
    /\ journal = Some("opening 1")
    /\ faking_it = FALSE
    /\ maxtime_arg = DefaultMaxTime
    /\ overlaps = MaxCalls - 1
    /\ calls = Some(MaxCalls)
    /\ Construct

SpecRace == InitRace /\ [][Next]_vars

\* ------------------------------------------------------------------ claims
Idle == \A t \in Callers : pc[t] = "idle"

NoPendingWrite == \A f \in Futures : Done(f)

\* C1: a non-resuming open() from any status but 'closed', and a non-resuming
\* close() from any status but 'open', returns False and leaves the status,
\* the journal file, both motor leads, the busy flag and the futures as they
\* were.
C1_WrongStateRejected ==
    [][\A t \in Callers :
          /\ (Open(t) /\ status # Some("closed"))
                => (returned' = <<"open", "False">> /\ pc'[t] = "idle"
                    /\ UNCHANGED shared)
          /\ (Close(t) /\ status # Some("open"))
                => (returned' = <<"close", "False">> /\ pc'[t] = "idle"
                    /\ UNCHANGED shared)]_vars

\* open() was rejected from a status that is not 'closed'.
C1_Witness ==
    /\ returned = <<"open", "False">>
    /\ status \notin {None, Some("closed")}
    /\ Idle

\* C2: the terminal write of an operation that acquired the motor sets the
\* status to 'open' (close: 'closed') exactly when the counted pulses reached
\* the target, and to 'failed opening' ('failed closing') otherwise; it never
\* leaves 'closed'/'open' or an in-progress status behind a timeout.
C2_TerminalStatus ==
    [][\A t \in Callers :
          Terminal(t) =>
            LET reached == pulses_seen[t] >= pulses[t]
            IN /\ op[t] = "open" =>
                    status' = Some(IF reached THEN "open" ELSE "failed opening")
               /\ op[t] = "close" =>
                    status' = Some(IF reached THEN "closed" ELSE "failed closing")]_vars

\* An open() timed out and returned, with the failure recorded in status and
\* journal.
C2_Witness ==
    /\ returned = <<"open", "None">>
    /\ status = Some("failed opening")
    /\ journal = Some("failed opening")
    /\ Idle

TerminalStatuses == {"open", "closed", "failed opening", "failed closing"}

\* C3: when an open() or close() that acquired the motor returns, the journal
\* file holds the in-memory status, which is one of the four terminal ones,
\* no future is tracked any more and no background write is left that could
\* still reach the file.
C3_DurableAtReturn ==
    [][\A t \in Callers :
          SyncClose(t) =>
            /\ status' \in {Some(s) : s \in TerminalStatuses}
            /\ journal' = status'
            /\ journal_futures' = {}
            /\ NoPendingWrite']_vars

\* C4: an invocation that reaches forward()/reverse() while another operation
\* is between its motor acquisition and the end of its final
\* stop_and_housekeeping is rejected and moves no motor lead, and never are
\* two operations inside the drive and pulse-wait section together.
InFlight(t) ==
    \/ pc[t] \in {"forward_out", "begin", "wait"}
    \/ pc[t] \in {"stop", "settle", "drain"}

Driving(t) == pc[t] \in {"begin", "wait"}

C4_BusyExcludes ==
    /\ [](\A t, u \in Callers : (Driving(t) /\ Driving(u)) => t = u)
    /\ [][\A t, u \in Callers :
            (t # u /\ InFlight(u) /\ ForwardTest(t))
               => (pc'[t] = "idle" /\ ch1' = ch1 /\ ch2' = ch2)]_vars

\* C8: when forward()/reverse() finds the motor busy, open()/close() returns
\* False to its caller, an ordinary result, and status, journal and motor
\* leads are as before.
C8_BusyIsRejection ==
    [][\A t \in Callers :
          (ForwardTest(t) /\ motor_busy)
             => (returned'[2] = "False" /\ UNCHANGED shared)]_vars

InProgress == {"opening", "closing"}

\* C5: resume() from 'opening n' (n >= 0) enters open with resuming=True and
\* the target n, whatever open_pulses is and although the status is not
\* 'closed'; the resumed drive succeeds exactly when it counted n pulses, and
\* then writes 'open', as a drive with target n does. 'closing n' likewise.
C5_ResumeTarget ==
    [][\A t \in Callers :
          /\ \A n \in 0..MaxPulses :
               /\ (Resume(t) /\ status = Some(FormatStatus("opening", n)))
                     => (pc'[t] = "forward" /\ op'[t] = "open" /\ resuming'[t]
                         /\ pulses'[t] = n)
               /\ (Resume(t) /\ status = Some(FormatStatus("closing", n)))
                     => (pc'[t] = "forward" /\ op'[t] = "close" /\ resuming'[t]
                         /\ pulses'[t] = n)
          /\ (WaitExit(t) /\ resuming[t])
                => (result'[t] <=> pulses_seen[t] = pulses[t])
          /\ (Terminal(t) /\ resuming[t] /\ pulses_seen[t] = pulses[t])
                => status' = Some(IF op[t] = "open" THEN "open" ELSE "closed")]_vars

\* A resumed open with target 1, not open_pulses, counted its one pulse.
C5_Witness ==
    \E t \in Callers :
        /\ pc[t] = "terminal" /\ op[t] = "open" /\ resuming[t]
        /\ pulses[t] = 1 /\ pulses[t] # open_pulses
        /\ pulses_seen[t] = 1 /\ result[t]

\* C6: resume() from a status whose first token is neither 'opening' nor
\* 'closing' returns False and changes neither the status, the journal nor a
\* motor lead.
C6_NothingToResume ==
    [][\A t \in Callers :
          (Resume(t) /\ status # None /\ Split(Get(status))[1] \notin InProgress)
             => (returned' = <<"resume", "False">> /\ pc'[t] = "idle"
                 /\ UNCHANGED shared)]_vars

\* resume() was refused from 'failed opening'.
C6_Witness ==
    /\ returned = <<"resume", "False">>
    /\ status = Some("failed opening")
    /\ Idle

StrictStatus(s) ==
    \/ s \in TerminalStatuses
    \/ LET w == Split(s)
       IN /\ Len(w) = 2
          /\ w[1] \in InProgress
          /\ AllDigits(w[2])
          /\ s = w[1] \o " " \o w[2]

\* The values the controller assigns to the status or hands to f.write in
\* this step all satisfy Ok.
Assigned(Ok(_)) ==
    /\ status' # status => Ok(Get(status'))
    /\ \A f \in Futures : fut'[f].buf \notin {fut[f].buf, ""} => Ok(fut'[f].buf)
    /\ \A t \in Callers : wbuf'[t] \notin {wbuf[t], ""} => Ok(wbuf'[t])

BareOrStrictStatus(s) == s \in InProgress \/ StrictStatus(s)

C10_NoJournalNoDrive ==
    /\ (journal = None \/ Strip(Get(journal)) = "") => status = None
    /\ [][(status = None \/ journal = None)
            => (/\ status' = None
                /\ UNCHANGED <<journal, ch1, ch2, motor_busy, fut, journal_futures>>
                /\ \A t \in Callers : pc'[t] = "idle")]_vars

\* open() was invoked on a controller whose journal file is missing.
C10_Witness ==
    /\ journal = None
    /\ status = None
    /\ returned = <<"open", "False">>

\* C11: the pulse-wait loop goes on while fewer seconds than the maxtime
\* argument of the constructor have elapsed and the target is not reached,
\* and it gives up short of the target only once that many seconds elapsed.
C11_TimeoutIsArgument ==
    [][\A t \in Callers :
          /\ (WaitExit(t) /\ pulses_seen[t] < pulses[t])
                => elapsed[t] >= maxtime_arg
          /\ WaitIter(t) => elapsed[t] < maxtime_arg]_vars

\* C12: whenever a motor lead is asserted or an operation is inside
\* wait_pulses, motor_busy is true.
C12_BusyWhileDriving ==
    /\ (ch1 = LOW \/ ch2 = LOW) => motor_busy
    /\ \A t \in Callers : pc[t] = "wait" => motor_busy

\* C13: never are both motor leads asserted (LOW) together.
C13_OneLeadAsserted == ~(ch1 = LOW /\ ch2 = LOW)

\* C14: while a non-resuming open()/close() is inside wait_pulses with its
\* lead asserted, the journal file no longer holds the 'closed'/'open' the
\* operation started from.
C14_StartStatusDurable ==
    \A t \in Callers :
        (/\ pc[t] = "wait" /\ ~resuming[t]
         /\ (ch1 = LOW \/ ch2 = LOW)
         /\ journal # None)
           => Strip(Get(journal)) \notin {"closed", "open"}

\* The remaining count a journal file shows: the integer after 'opening' or
\* 'closing', if the file holds just these two tokens.
journal_count(file) ==
    IF file = None THEN None
    ELSE LET w == Split(Get(file))
         IN IF Len(w) = 2 /\ w[1] \in InProgress /\ IsInt(w[2])
            THEN Some(ParseInt(w[2])) ELSE None

journal_prefix(file) == Split(Get(file))[1]

\* C15: the remaining count the journal file shows never goes up: no step
\* takes the file from '<prefix> m' to '<prefix> n' with n > m.
C15_NoStaleOverwrite ==
    [][(/\ journal_count(journal) # None
        /\ journal_count(journal') # None
        /\ journal_prefix(journal') = journal_prefix(journal))
          => Get(journal_count(journal')) <= Get(journal_count(journal))]_vars

\* C16: when the stop_and_housekeeping that ends an operation marks the motor
\* idle, no journal write that is still tracked is unfinished.
C16_DrainedBeforeIdle ==
    [][\A t \in Callers :
          (Settle(t) /\ phase[t] = "finish")
             => \A f \in journal_futures : Done(f)]_vars

\* The remaining count an in-progress status carries: its count token, or the
\* configured pulse count that resume() takes for a status without one.
status_remaining(s, o) ==
    LET w == Split(Get(s))
    IN IF Len(w) > 1 THEN ParseInt(w[2]) ELSE full_pulses(o)

\* C17: wait_pulses(k) returns True exactly when it counted k pulses; when it
\* returns, the status carries the remaining count k minus the pulses
\* counted; and the first sample of the loop only sets the baseline, it is
\* never counted as a pulse.
C17_WaitPulsesContract ==
    [][\A t \in Callers :
          /\ WaitExit(t) =>
                /\ result'[t] <=> (pulses_seen[t] = pulses[t])
                /\ status_remaining(status, op[t]) = pulses[t] - pulses_seen[t]
          /\ (WaitIter(t) /\ last_state[t] = None)
                => pulses_seen'[t] = pulses_seen[t]]_vars

\* A pass of the wait loop that confirms a pulse: the real input went from
\* low to high, or the pulse is faked.
ConfirmedPulse(t) ==
    /\ WaitIter(t)
    /\ faking_it \/ (last_state[t] = Some(0) /\ last_state'[t] = Some(1))

\* C18: the j-th confirmed pulse of a drive with target k sets the status to
\* '<prefix> <k-j>', one less than the pulse before it, and submits a journal
\* write; no other step of the operation's wait loop changes the status.
C18_RemainingPerPulse ==
    [][\A t \in Callers :
          /\ ConfirmedPulse(t) =>
                /\ pulses_seen'[t] = pulses_seen[t] + 1
                /\ status' = Some(FormatStatus(prefix(op[t]),
                                               pulses[t] - pulses_seen'[t]))
                /\ status_remaining(status', op[t]) = pulses[t] - pulses_seen[t] - 1
                /\ \E f \in journal_futures' :
                      Done(f) /\ fut'[f].st = "queued"
          /\ ((WaitIter(t) \/ WaitExit(t)) /\ ~ConfirmedPulse(t))
                => status' = status]_vars

\* The second pulse of an open with target 2 was just confirmed on the real
\* input: the status is 'opening 0' and its write is queued.
C18_Witness ==
    \E t \in Callers :
        /\ pc[t] = "wait" /\ op[t] = "open" /\ ~faking_it
        /\ pulses[t] = 2 /\ pulses_seen[t] = 2
        /\ status = Some("opening 0")
        /\ \E f \in journal_futures : fut[f].st = "queued"

\* Past the busy test of forward()/reverse(): the operation has the motor.
Acquired(t) == pc[t] \notin {"idle", "forward"}

\* C19: with time advancing and the journal workers running, every
\* open()/close() that acquired the motor returns; the step that returns
\* leaves both leads deasserted and a terminal status.
C19_EventuallyReturns ==
    /\ \A t \in Callers : Acquired(t) ~> (pc[t] = "idle")
    /\ [][\A t \in Callers :
            SyncClose(t) =>
              /\ pc'[t] = "idle"
              /\ ch1' = HIGH /\ ch2' = HIGH
              /\ status' \in {Some(s) : s \in TerminalStatuses}]_vars

\* Between the start of its wait loop and its terminal write: the operation's
\* pulse count is live.
Counting(t) ==
    \/ pc[t] = "wait"
    \/ pc[t] \in {"stop", "settle", "drain", "terminal"} /\ phase[t] = "finish"

\* C20: while an operation with target k counts, a journal file that shows
\* '<prefix> n' for the operation's prefix has n >= k minus the pulses
\* counted so far.
C20_JournalNeverAhead ==
    \A t \in Callers :
        (/\ Counting(t)
         /\ journal_count(journal) # None
         /\ journal_prefix(journal) = prefix(op[t]))
           => Get(journal_count(journal)) >= pulses[t] - pulses_seen[t]

====
